---------------------------- MODULE Spec2Model ----------------------------
(***************************************************************************)
(* A model of counters::bench (include/counters/bench.h): the invocation   *)
(* dispatchers call_ntimes<M> / call_ntimes_runtime, the inner calibration *)
(* loop of bench(), the warm-up of bench_compute_repeat_impl<M>, and the   *)
(* measurement and normalization of bench_impl<M>.                         *)
(*                                                                         *)
(* The event_collector and the event_aggregate live in                     *)
(* counters/event_counter.h, which is not part of the sources at hand.     *)
(* The collector is an environment: end() returns an elapsed time chosen   *)
(* by the sampler in force.  The aggregate is modelled from its documented *)
(* interface: fold one sample in, divide by a positive divisor, read the   *)
(* total elapsed time, the per-call elapsed time and the sample count.     *)
(*                                                                         *)
(* size_t has size_bits bits and N *= 10 is taken modulo 2^size_bits.      *)
(* TLC's integers have 32 bits, so a 64-bit size_t cannot be written down: *)
(* Spec runs with 30 bits, which no size_t value of its configurations     *)
(* comes near, and NarrowSpec runs the same program on a narrow size_t     *)
(* whose range the warm-up can exhaust.                                    *)
(***************************************************************************)
EXTENDS Integers, Sequences, FiniteSets

VARIABLES
  min_repeat,      \* bench() argument
  min_time_ns,     \* bench() argument
  max_repeat,      \* bench() argument
  sampler,         \* the behaviour of the collector: [kind, v]
  size_bits,       \* the width of size_t on the build
  pc,              \* the statement bench() executes next
  M,               \* inner multiplier (bench: local M, then the template argument)
  N,               \* outer count (bench_compute_repeat_impl / bench_impl local N)
  i,               \* loop index of the warm-up / measurement loop
  window,          \* TRUE between collector.start() and collector.end()
  calls,           \* invocations of the callable since the last collector.start()
  warm_aggregate,  \* bench_compute_repeat_impl: warm_aggregate
  aggregate,       \* bench_impl: aggregate (the returned value once pc = "done")
  probes,          \* history: the calibration probes, <<M probed, elapsed reported>>
  warmSeen,        \* history: the distinct elapsed times reported during warm-up
  warmCount,       \* history: number of warm-up samples taken
  warmSum,         \* history: sum of the elapsed times of the samples of the
                   \*   warm-up in progress (0 once it has returned)
  measCalls,       \* history: invocations of the callable in the measurement phase
  rawSum,          \* history: sum of the raw elapsed times of the measurement samples
  starts,          \* history: number of collector.start() calls so far
  ends,            \* history: number of collector.end() calls so far
  which,           \* direct dispatcher test: "compile" | "runtime" | "none"
  before,          \* direct dispatcher test: invocation count before the last dispatch
  round            \* direct dispatcher test: number of dispatches done

vars == <<min_repeat, min_time_ns, max_repeat, sampler, size_bits, pc, M, N, i, window,
          calls, warm_aggregate, aggregate, probes, warmSeen, warmCount, warmSum,
          measCalls, rawSum, starts, ends, which, before, round>>

---------------------------------------------------------------------------
(* The cap raised tenfold, with no dispatch case added for it. *)
max_inner_M_raised == 10 * 10000

(* Program constants (bench.h:173-174).                                    *)
min_time_per_inner_ns == 2000
max_inner_M == 10000

(* Bounds of the model.                                                    *)
MaxMinRepeat == 2
MaxMaxRepeat == 2
MaxDirectM == 12
MaxRounds == 2
NarrowBits == 14

(* The multipliers with a compile-time instantiation (bench.h:93-94).      *)
AllowedM == {1, 10, 100, 1000, 10000}

---------------------------------------------------------------------------
(* The samplers.  "percall": a block of k invocations measures k * v ns.   *)
(* "const": every sample measures v ns whatever the block.  "any": every   *)
(* sample measures any of Durations.                                       *)
PerCallCosts == {0, 1, 2, 19, 20, 50, 199, 200, 1999, 2000, 2001}
ConstTimes == {0, 1999, 2000}
Durations == {0, 2000}

Samplers ==
  [kind : {"percall"}, v : PerCallCosts] \cup
  [kind : {"const"}, v : ConstTimes] \cup
  [kind : {"any"}, v : {0}]

(* collector.end(): the elapsed times the sampler may report for a window  *)
(* in which the callable ran k times.                                      *)
elapsed_ns(k) ==
  CASE sampler.kind = "percall" -> {k * sampler.v}
    [] sampler.kind = "const" -> {sampler.v}
    [] OTHER -> Durations

MinTimes == {1, 4000, 100000}

(* Scenario C of the specification: min_repeat 10, min_time_ns 10^6, a     *)
(* sampler reporting 100 ns per sample, default max_repeat.                *)
ScenarioC ==
  [min_repeat |-> 10, min_time_ns |-> 1000000, max_repeat |-> 1000000,
   sampler |-> [kind |-> "const", v |-> 100]]

(* A configuration in which N can be extended twice (1, 10, 100) or have   *)
(* the time floor met at N = 10, under a sampler free to report any of     *)
(* Durations.                                                              *)
TwoExtensions ==
  [min_repeat |-> 1, min_time_ns |-> 4000, max_repeat |-> 11,
   sampler |-> [kind |-> "any", v |-> 0]]

Configurations ==
  [min_repeat : 0..MaxMinRepeat, min_time_ns : MinTimes,
   max_repeat : 1..MaxMaxRepeat, sampler : Samplers]
    \cup {ScenarioC, TwoExtensions}

---------------------------------------------------------------------------
(* event_aggregate, from its interface.  total / div is the accumulated    *)
(* elapsed time (a rational: operator/= divides a double), iterations the  *)
(* number of samples folded in, phases the tags of the samples folded in.  *)
EmptyAggregate ==
  [total |-> 0, div |-> 1, iterations |-> 0, inner_count |-> 1, phases |-> {}]

(* aggregate << sample *)
fold(agg, elapsed, phase) ==
  [agg EXCEPT !.total = @ + elapsed * agg.div,
              !.iterations = @ + 1,
              !.phases = @ \cup {phase}]

(* aggregate /= m *)
divide(agg, m) == [agg EXCEPT !.div = @ * m]

(* aggregate.total_elapsed_ns() < t *)
total_elapsed_below(agg, t) == agg.total < t * agg.div

(* aggregate.elapsed_ns() as the fraction <<numerator, denominator>>:      *)
(* total elapsed over the number of samples.                               *)
per_call_elapsed(agg) == <<agg.total, agg.div * agg.iterations>>

---------------------------------------------------------------------------
(* call_ntimes<M>(func): the number of invocations of func, or a throw.    *)
Returned(n) == [calls |-> n, threw |-> FALSE]
Threw(n) == [calls |-> n, threw |-> TRUE]

(* call_ntimes<M> with the 10000 block built from ten blocks of 100.       *)
call_ntimes_short_block(m) ==
  IF m \in {1, 10, 100, 1000} THEN Returned(m)
  ELSE IF m = 10000 THEN Returned(1000)
  ELSE Threw(0)

RECURSIVE call_ntimes(_)
call_ntimes(m) ==
  IF m = 1 THEN Returned(1)
  ELSE IF m = 10 THEN Returned(10)
  ELSE IF m = 100 THEN Returned(10 * call_ntimes(10).calls)
  ELSE IF m = 1000 THEN Returned(10 * call_ntimes(100).calls)
  ELSE IF m = 10000 THEN Returned(10 * call_ntimes(1000).calls)
  ELSE Threw(0)

(* call_ntimes_runtime(func, M) *)
call_ntimes_runtime(m) ==
  CASE m = 1 -> call_ntimes(1)
    [] m = 10 -> call_ntimes(10)
    [] m = 100 -> call_ntimes(100)
    [] m = 1000 -> call_ntimes(1000)
    [] m = 10000 -> call_ntimes(1000)
    [] OTHER -> Threw(0)

---------------------------------------------------------------------------
(* bench(): the inner calibration loop (bench.h:176-189).                  *)

(* while (M < max_inner_M) *)
calibration_continues(m) == m < max_inner_M

(* The threshold test with > for >=. *)
calibrate_step_strict(m, elapsed) ==
  IF elapsed > 2000
    THEN [M |-> m, brk |-> TRUE]
    ELSE IF m * 10 >= 10000
           THEN [M |-> 10000, brk |-> TRUE]
           ELSE [M |-> m * 10, brk |-> FALSE]

(* The loop body with M left as it is where the code has M *= 10. *)
calibrate_step_no_growth(m, elapsed) ==
  IF elapsed >= 2000
    THEN [M |-> m, brk |-> TRUE]
    ELSE IF m >= 10000
           THEN [M |-> 10000, brk |-> TRUE]
           ELSE [M |-> m, brk |-> FALSE]

(* The body of the loop after collector.end(): the new M and whether the   *)
(* loop is left by a break.                                                *)
calibrate_step(m, elapsed) ==
  IF elapsed >= min_time_per_inner_ns
    THEN [M |-> m, brk |-> TRUE]
    ELSE IF m * 10 >= max_inner_M
           THEN [M |-> max_inner_M, brk |-> TRUE]
           ELSE [M |-> m * 10, brk |-> FALSE]

(* A value of type size_t: unsigned arithmetic wraps modulo 2^size_bits.   *)
size_t(x) == x % (2 ^ size_bits)

(* N = min_repeat without the clamp of 0 to 1. *)
initial_N_unclamped(mr) == mr

(* bench_compute_repeat_impl: size_t N = min_repeat; if (N == 0) N = 1;    *)
initial_N(mr) == IF mr = 0 THEN 1 ELSE mr

(* The extension test without i + 1 == N: taken at every iteration. *)
extend_N_every_iteration(n, idx, warm, mt, mx) ==
  IF total_elapsed_below(warm, mt) /\ (n < mx)
    THEN n * 10
    ELSE n

(* The extension test without the guard N < max_repeat. *)
extend_N_unguarded(n, idx, warm, mt, mx) ==
  IF (idx + 1 = n) /\ total_elapsed_below(warm, mt)
    THEN n * 10
    ELSE n

(* The extension test with N <= max_repeat for N < max_repeat. *)
extend_N_inclusive(n, idx, warm, mt, mx) ==
  IF (idx + 1 = n) /\ total_elapsed_below(warm, mt) /\ (n <= mx)
    THEN n * 10
    ELSE n

(* bench_compute_repeat_impl: the extension test at the end of iteration   *)
(* idx, with warm the aggregate after the fold; N *= 10 in size_t.         *)
extend_N(n, idx, warm, mt, mx) ==
  IF (idx + 1 = n) /\ total_elapsed_below(warm, mt) /\ (n < mx)
    THEN size_t(n * 10)
    ELSE n

(* The measurement continuing in the warm-up aggregate. *)
measurement_reuses_warm(warm) == warm

(* The normalization without the division. *)
normalize_no_divide(agg, m) == [agg EXCEPT !.inner_count = m]

(* bench_impl: event_aggregate aggregate{};                                *)
measurement_aggregate(warm) == EmptyAggregate

(* bench_impl: aggregate /= M; aggregate.inner_count = M;                  *)
normalize(agg, m) == [divide(agg, m) EXCEPT !.inner_count = m]

---------------------------------------------------------------------------
TypeOK ==
  /\ min_repeat \in Nat /\ min_time_ns \in Nat /\ max_repeat \in Nat
  /\ pc \in {"cal_test", "cal_start", "cal_call", "cal_end", "dispatch",
             "warm_test", "warm_start", "warm_call", "warm_end",
             "meas_test", "meas_start", "meas_call", "meas_end",
             "normalize", "done", "threw",
             "direct_call", "direct_done", "direct_threw"}
  /\ size_bits \in 1..30
  /\ M \in Nat /\ N \in Nat /\ i \in Nat
  /\ window \in BOOLEAN /\ calls \in Nat
  /\ probes \in Seq(Nat \X Nat)
  /\ warmCount \in Nat /\ measCalls \in Nat /\ rawSum \in Nat

(* The state on entry to bench(function, min_repeat, min_time_ns,          *)
(* max_repeat): size_t M = 1.                                              *)
Init ==
  /\ \E c \in Configurations :
       /\ min_repeat = c.min_repeat
       /\ min_time_ns = c.min_time_ns
       /\ max_repeat = c.max_repeat
       /\ sampler = c.sampler
  /\ size_bits = 30
  /\ pc = "cal_test"
  /\ M = 1
  /\ N = min_repeat
  /\ i = 0
  /\ window = FALSE
  /\ calls = 0
  /\ warm_aggregate = EmptyAggregate
  /\ aggregate = EmptyAggregate
  /\ probes = <<>>
  /\ warmSeen = {}
  /\ warmCount = 0
  /\ warmSum = 0
  /\ measCalls = 0
  /\ rawSum = 0
  /\ starts = 0
  /\ ends = 0
  /\ which = "none"
  /\ before = 0
  /\ round = 0

config == <<min_repeat, min_time_ns, max_repeat, sampler, size_bits>>
direct == <<which, before, round>>
history == <<probes, warmSeen, warmCount, warmSum, measCalls, rawSum>>
protocol == <<starts, ends>>

(* bench.h:177  while (M < max_inner_M) *)
CalTest ==
  /\ pc = "cal_test"
  /\ pc' = IF calibration_continues(M) THEN "cal_start" ELSE "dispatch"
  /\ UNCHANGED <<config, M, N, i, window, calls, warm_aggregate, aggregate,
                 history, direct, protocol>>

(* bench.h:178  collector.start(); *)
CalStart ==
  /\ pc = "cal_start"
  /\ window' = TRUE
  /\ starts' = starts + 1
  /\ calls' = 0
  /\ pc' = "cal_call"
  /\ UNCHANGED <<config, M, N, i, warm_aggregate, aggregate, history, direct, ends>>

(* bench.h:179  call_ntimes_runtime(fn, M); *)
CalCall ==
  /\ pc = "cal_call"
  /\ LET r == call_ntimes_runtime(M) IN
       /\ calls' = calls + r.calls
       /\ pc' = IF r.threw THEN "threw" ELSE "cal_end"
  /\ UNCHANGED <<config, M, N, i, window, warm_aggregate, aggregate,
                 history, direct, protocol>>

(* bench.h:180-188  allocate_count = collector.end(); the threshold test,  *)
(* M *= 10 and the clamp to max_inner_M.                                   *)
CalEnd ==
  /\ pc = "cal_end"
  /\ \E e \in elapsed_ns(calls) :
       LET s == calibrate_step(M, e) IN
         /\ M' = s.M
         /\ pc' = IF s.brk THEN "dispatch" ELSE "cal_test"
         /\ probes' = Append(probes, <<M, e>>)
  /\ window' = FALSE
  /\ ends' = ends + 1
  /\ UNCHANGED <<config, N, i, calls, warm_aggregate, aggregate,
                 warmSeen, warmCount, warmSum, measCalls, rawSum, direct, starts>>

(* bench.h:192-212  switch (M): enter bench_impl<M>, which enters          *)
(* bench_compute_repeat_impl<M> (bench.h:125-131): N, the empty warm-up    *)
(* aggregate, i = 0.  Any other M throws "unreachable".                    *)
Dispatch ==
  /\ pc = "dispatch"
  /\ IF M \in AllowedM
       THEN /\ N' = initial_N(min_repeat)
            /\ warm_aggregate' = EmptyAggregate
            /\ i' = 0
            /\ pc' = "warm_test"
       ELSE /\ pc' = "threw"
            /\ UNCHANGED <<N, warm_aggregate, i>>
  /\ UNCHANGED <<config, M, window, calls, aggregate, history, direct, protocol>>

(* bench.h:131  i < N; on exit return N to bench_impl (bench.h:141), which *)
(* starts the measurement (bench.h:150-155); warm_aggregate, a local of    *)
(* bench_compute_repeat_impl, ends with the return.                        *)
WarmTest ==
  /\ pc = "warm_test"
  /\ IF i < N
       THEN /\ pc' = "warm_start"
            /\ UNCHANGED <<i, aggregate, warm_aggregate, warmSum>>
       ELSE /\ pc' = "meas_test"
            /\ aggregate' = measurement_aggregate(warm_aggregate)
            /\ warm_aggregate' = EmptyAggregate
            /\ warmSum' = 0
            /\ i' = 0
  /\ UNCHANGED <<config, M, N, window, calls, probes, warmSeen, warmCount,
                 measCalls, rawSum, direct, protocol>>

(* bench.h:132  collector.start(); *)
WarmStart ==
  /\ pc = "warm_start"
  /\ window' = TRUE
  /\ starts' = starts + 1
  /\ calls' = 0
  /\ pc' = "warm_call"
  /\ UNCHANGED <<config, M, N, i, warm_aggregate, aggregate, history, direct, ends>>

(* bench.h:133  call_ntimes<M>(function); *)
WarmCall ==
  /\ pc = "warm_call"
  /\ LET r == call_ntimes(M) IN
       /\ calls' = calls + r.calls
       /\ pc' = IF r.threw THEN "threw" ELSE "warm_end"
  /\ UNCHANGED <<config, M, N, i, window, warm_aggregate, aggregate,
                 history, direct, protocol>>

(* The warm-up restarting on an extension: a fresh aggregate and i = 0.    *)
WarmEndRestarts ==
  /\ pc = "warm_end"
  /\ \E e \in elapsed_ns(calls) :
       LET w == fold(warm_aggregate, e, "warmup")
           n == extend_N(N, i, w, min_time_ns, max_repeat)
       IN /\ N' = n
          /\ warm_aggregate' = IF n = N THEN w ELSE EmptyAggregate
          /\ i' = IF n = N THEN i + 1 ELSE 0
          /\ warmSeen' = warmSeen \cup {e}
          /\ warmSum' = warmSum + e
  /\ warmCount' = warmCount + 1
  /\ window' = FALSE
  /\ ends' = ends + 1
  /\ pc' = "warm_test"
  /\ UNCHANGED <<config, M, calls, aggregate, probes, measCalls, rawSum, direct, starts>>

(* bench.h:134-139 and the i++ of 131: end(), fold, the extension test.    *)
WarmEnd ==
  /\ pc = "warm_end"
  /\ \E e \in elapsed_ns(calls) :
       LET w == fold(warm_aggregate, e, "warmup") IN
         /\ warm_aggregate' = w
         /\ N' = extend_N(N, i, w, min_time_ns, max_repeat)
         /\ warmSeen' = warmSeen \cup {e}
         /\ warmSum' = warmSum + e
  /\ warmCount' = warmCount + 1
  /\ i' = i + 1
  /\ window' = FALSE
  /\ ends' = ends + 1
  /\ pc' = "warm_test"
  /\ UNCHANGED <<config, M, calls, aggregate, probes, measCalls, rawSum, direct, starts>>

(* bench.h:155  i < N *)
MeasTest ==
  /\ pc = "meas_test"
  /\ pc' = IF i < N THEN "meas_start" ELSE "normalize"
  /\ UNCHANGED <<config, M, N, i, window, calls, warm_aggregate, aggregate,
                 history, direct, protocol>>

(* The measurement loop without its collector.start(). *)
MeasStartMissing ==
  /\ pc = "meas_start"
  /\ pc' = "meas_call"
  /\ UNCHANGED <<config, M, N, i, window, calls, warm_aggregate, aggregate,
                 history, direct, protocol>>

(* bench.h:156  collector.start(); *)
MeasStart ==
  /\ pc = "meas_start"
  /\ window' = TRUE
  /\ starts' = starts + 1
  /\ calls' = 0
  /\ pc' = "meas_call"
  /\ UNCHANGED <<config, M, N, i, warm_aggregate, aggregate, history, direct, ends>>

(* bench.h:157  call_ntimes<M>(function); *)
MeasCall ==
  /\ pc = "meas_call"
  /\ LET r == call_ntimes(M) IN
       /\ calls' = calls + r.calls
       /\ measCalls' = measCalls + r.calls
       /\ pc' = IF r.threw THEN "threw" ELSE "meas_end"
  /\ UNCHANGED <<config, M, N, i, window, warm_aggregate, aggregate,
                 probes, warmSeen, warmCount, warmSum, rawSum, direct, protocol>>

(* The measurement loop with the normalization inside it. *)
MeasEndNormalizes ==
  /\ pc = "meas_end"
  /\ \E e \in elapsed_ns(calls) :
       /\ aggregate' = normalize(fold(aggregate, e, "measurement"), M)
       /\ rawSum' = rawSum + e
  /\ i' = i + 1
  /\ window' = FALSE
  /\ ends' = ends + 1
  /\ pc' = "meas_test"
  /\ UNCHANGED <<config, M, N, calls, warm_aggregate, probes, warmSeen,
                 warmCount, warmSum, measCalls, direct, starts>>

(* bench.h:158-159 and the i++ of 155: end(), fold.                        *)
MeasEnd ==
  /\ pc = "meas_end"
  /\ \E e \in elapsed_ns(calls) :
       /\ aggregate' = fold(aggregate, e, "measurement")
       /\ rawSum' = rawSum + e
  /\ i' = i + 1
  /\ window' = FALSE
  /\ ends' = ends + 1
  /\ pc' = "meas_test"
  /\ UNCHANGED <<config, M, N, calls, warm_aggregate, probes, warmSeen,
                 warmCount, warmSum, measCalls, direct, starts>>

(* bench.h:161-163  aggregate /= M; aggregate.inner_count = M; return.     *)
Normalize ==
  /\ pc = "normalize"
  /\ aggregate' = normalize(aggregate, M)
  /\ pc' = "done"
  /\ UNCHANGED <<config, M, N, i, window, calls, warm_aggregate, history, direct, protocol>>

Next ==
  \/ CalTest \/ CalStart \/ CalCall \/ CalEnd
  \/ Dispatch
  \/ WarmTest \/ WarmStart \/ WarmCall \/ WarmEnd
  \/ MeasTest \/ MeasStart \/ MeasCall \/ MeasEnd
  \/ Normalize

Spec == Init /\ [][Next]_vars

(* bench() runs on one thread and every statement of it completes (the     *)
(* callable returns, the collector returns): a step that can be taken is   *)
(* taken.                                                                  *)
FairSpec == Spec /\ WF_vars(Next)

---------------------------------------------------------------------------
(* A direct test of the dispatchers: call_ntimes<M>(f) ("compile") or      *)
(* call_ntimes_runtime(f, M) ("runtime") on a callable that counts its     *)
(* invocations, up to MaxRounds dispatches in a row.  An exception ends    *)
(* the test.                                                               *)
DirectMs == (0..MaxDirectM) \cup AllowedM

InitDirect ==
  /\ min_repeat = 0 /\ min_time_ns = 0 /\ max_repeat = 0
  /\ sampler = [kind |-> "const", v |-> 0]
  /\ size_bits = 30
  /\ pc = "direct_call"
  /\ M \in DirectMs
  /\ which \in {"compile", "runtime"}
  /\ N = 0 /\ i = 0
  /\ window = FALSE
  /\ calls = 0
  /\ warm_aggregate = EmptyAggregate
  /\ aggregate = EmptyAggregate
  /\ probes = <<>>
  /\ warmSeen = {}
  /\ warmCount = 0 /\ warmSum = 0 /\ measCalls = 0 /\ rawSum = 0
  /\ before = 0
  /\ round = 0
  /\ starts = 0 /\ ends = 0

(* call_ntimes<M>(f) or call_ntimes_runtime(f, M) *)
DirectCall ==
  /\ pc = "direct_call"
  /\ LET r == IF which = "compile" THEN call_ntimes(M)
                                   ELSE call_ntimes_runtime(M) IN
       /\ before' = calls
       /\ calls' = calls + r.calls
       /\ pc' = IF r.threw THEN "direct_threw" ELSE "direct_done"
  /\ round' = round + 1
  /\ UNCHANGED <<config, M, N, i, window, warm_aggregate, aggregate,
                 history, protocol, which>>

(* The test picks the next dispatcher and count. *)
DirectAgain ==
  /\ pc = "direct_done"
  /\ round < MaxRounds
  /\ M' \in DirectMs
  /\ which' \in {"compile", "runtime"}
  /\ pc' = "direct_call"
  /\ UNCHANGED <<config, N, i, window, calls, warm_aggregate, aggregate,
                 history, protocol, before, round>>

NextDirect == DirectCall \/ DirectAgain

DispatchSpec == InitDirect /\ [][NextDirect]_vars

---------------------------------------------------------------------------
(* bench() on a build whose size_t has NarrowBits bits, so that the        *)
(* warm-up can reach the end of the size_t range: the small configurations *)
(* (max_repeat = 0 included), configurations whose 10 * max_repeat is the  *)
(* largest that fits, and configurations with max_repeat at the top of the *)
(* range, under a sampler reporting 0 ns (N is extended as long as         *)
(* N < max_repeat) or any of Durations.                                    *)
SizeRange == 2 ^ NarrowBits
LargestFitting == (SizeRange - 1) \div 10

NarrowSamplers ==
  {[kind |-> "const", v |-> 0], [kind |-> "any", v |-> 0]}

NarrowConfigurations ==
  [min_repeat : 0..MaxMinRepeat, min_time_ns : {1, 4000},
   max_repeat : 0..MaxMaxRepeat, sampler : NarrowSamplers]
  \cup
  [min_repeat : {1, LargestFitting \div 10, LargestFitting},
   min_time_ns : {4000},
   max_repeat : {LargestFitting, SizeRange - 1},
   sampler : {[kind |-> "const", v |-> 0]}]
  \cup
  [min_repeat : {SizeRange \div 2}, min_time_ns : {4000},
   max_repeat : {SizeRange - 1},
   sampler : {[kind |-> "const", v |-> 0]}]

InitNarrow ==
  /\ \E c \in NarrowConfigurations :
       /\ min_repeat = c.min_repeat
       /\ min_time_ns = c.min_time_ns
       /\ max_repeat = c.max_repeat
       /\ sampler = c.sampler
  /\ size_bits = NarrowBits
  /\ pc = "cal_test"
  /\ M = 1
  /\ N = min_repeat
  /\ i = 0
  /\ window = FALSE
  /\ calls = 0
  /\ warm_aggregate = EmptyAggregate
  /\ aggregate = EmptyAggregate
  /\ probes = <<>>
  /\ warmSeen = {}
  /\ warmCount = 0 /\ warmSum = 0 /\ measCalls = 0 /\ rawSum = 0
  /\ starts = 0 /\ ends = 0
  /\ which = "none"
  /\ before = 0
  /\ round = 0

NarrowSpec == InitNarrow /\ [][Next]_vars

---------------------------------------------------------------------------
(* Positions of bench().                                                   *)
CalPcs == {"cal_test", "cal_start", "cal_call", "cal_end"}
WarmPcs == {"warm_test", "warm_start", "warm_call", "warm_end"}
MeasPcs == {"meas_test", "meas_start", "meas_call", "meas_end",
            "normalize", "done"}
DirectFinished == pc \in {"direct_done", "direct_threw"}

---------------------------------------------------------------------------
(* C1.  Under a sampler where a block of k invocations measures k * c ns,  *)
(* the M that the calibration selects is the smallest allowed multiplier   *)
(* with M * c >= min_time_per_inner_ns, or max_inner_M if there is none;   *)
(* c >= 2000 gives M = 1 after a single probe and c = 50 gives M = 100.    *)
SmallestSufficientM(c) ==
  IF \E m \in AllowedM : m * c >= min_time_per_inner_ns
    THEN CHOOSE m \in AllowedM :
           /\ m * c >= min_time_per_inner_ns
           /\ \A k \in AllowedM : k * c >= min_time_per_inner_ns => m <= k
    ELSE max_inner_M

C1_CalibrationSelectsSmallestM ==
  (sampler.kind = "percall" /\ pc \in WarmPcs \cup MeasPcs) =>
    /\ M = SmallestSufficientM(sampler.v)
    /\ (sampler.v >= 2000 => M = 1 /\ Len(probes) = 1)
    /\ (sampler.v = 50 => M = 100)

C1_Witness ==
  /\ sampler.kind = "percall" /\ sampler.v = 50
  /\ pc = "done" /\ M = 100 /\ Len(probes) = 3

(* C2.  With positive fields and min_repeat <= max_repeat, the N returned  *)
(* by the warm-up and used by the measurement satisfies                    *)
(* min_repeat <= N <= max_repeat.                                          *)
C2_OuterCountWithinBounds ==
  (/\ min_repeat >= 1 /\ min_time_ns >= 1 /\ max_repeat >= 1
   /\ min_repeat <= max_repeat
   /\ pc \in MeasPcs) =>
    (min_repeat <= N /\ N <= max_repeat)

(* C3.  The returned aggregate holds exactly N samples, all of them taken  *)
(* in the measurement phase: the measurement aggregate starts empty and no *)
(* calibration or warm-up sample is folded into it.                        *)
C3_OnlyMeasurementSamples ==
  (pc \in MeasPcs) =>
    /\ aggregate.phases \subseteq {"measurement"}
    /\ (pc = "meas_test" /\ i = 0 => aggregate.iterations = 0)
    /\ (pc = "done" => aggregate.iterations = N)

C3_Witness ==
  /\ pc = "done" /\ warmCount > 0 /\ Len(probes) > 0
  /\ aggregate.iterations = N /\ aggregate.phases = {"measurement"}

(* C4.  The returned aggregate has been divided by M exactly once: its     *)
(* per-call elapsed time is (sum of the raw elapsed times) / (N * M), its  *)
(* sample count is N and its inner_count is M.                             *)
C4_NormalizedOnceByM ==
  (pc = "done") =>
    /\ per_call_elapsed(aggregate) = <<rawSum, N * M>>
    /\ aggregate.iterations = N
    /\ aggregate.inner_count = M

C4_Witness ==
  /\ pc = "done" /\ M = 100 /\ N = 10 /\ rawSum > 0
  /\ per_call_elapsed(aggregate) = <<rawSum, 1000>>

(* C5.  Every warm-up and measurement sample brackets exactly M            *)
(* invocations, M being the value the returned aggregate was divided by    *)
(* and records as inner_count; the measurement phase invokes the callable  *)
(* exactly N * M times, for every M including 10000.                       *)
C5_SamplesBracketMInvocations ==
  /\ (pc \in {"warm_end", "meas_end"} => window /\ calls = M)
  /\ (pc = "done" =>
        /\ measCalls = N * M
        /\ aggregate.div = M
        /\ aggregate.inner_count = M)

C5_Witness ==
  /\ pc = "done" /\ M = 10000 /\ N = 10 /\ measCalls = 100000

(* C6.  For every M in {1, 10, 100, 1000, 10000}, call_ntimes<M>(f) and    *)
(* call_ntimes_runtime(f, M) both invoke f exactly M times.                *)
C6_DispatchersExact ==
  (DirectFinished /\ M \in AllowedM) =>
    (pc = "direct_done" /\ calls - before = M)

(* C7.  For an M outside {1, 10, 100, 1000, 10000},                        *)
(* call_ntimes_runtime(f, M) runs a plain loop that invokes f exactly M    *)
(* times and does not fail.                                                *)
C7_RuntimeFallbackLoop ==
  (DirectFinished /\ which = "runtime" /\ M \notin AllowedM) =>
    (pc = "direct_done" /\ calls - before = M)

(* C8.  With min_repeat = 0 the warm-up starts with N = 1; N >= 1 from the *)
(* warm-up on, at least one warm-up and one measurement sample are taken   *)
(* and the returned aggregate is never empty.                              *)
C8_ZeroMinRepeatClampedToOne ==
  /\ (pc \in WarmPcs \cup MeasPcs => N >= 1)
  /\ (min_repeat = 0 /\ pc = "warm_test" /\ warmCount = 0 => N = 1)
  /\ (pc \in MeasPcs => warmCount >= 1)
  /\ (pc = "done" => aggregate.iterations >= 1)

C8_Witness ==
  /\ min_repeat = 0 /\ pc = "done"
  /\ warmCount >= 1 /\ aggregate.iterations >= 1

(* C9.  The calibration stops after at most four probes whatever the       *)
(* sampler reports; if every probe reports less than 2000 ns it yields     *)
(* M = 10000; M never exceeds max_inner_M.                                 *)
AllProbesBelowThreshold ==
  \A k \in 1..Len(probes) : probes[k][2] < min_time_per_inner_ns

C9_CalibrationBounded ==
  /\ Len(probes) <= 4
  /\ M <= max_inner_M
  /\ (pc \in WarmPcs \cup MeasPcs /\ AllProbesBelowThreshold => M = max_inner_M)

C9_Witness ==
  /\ pc = "done" /\ Len(probes) = 4 /\ AllProbesBelowThreshold
  /\ sampler.kind = "const" /\ sampler.v = 0 /\ M = 10000

(* C10.  If every warm-up sample reports the same elapsed time t, then     *)
(* with r = max(min_repeat, 1) the final N is r * 10^k for the smallest k  *)
(* with r * 10^k * t >= min_time_ns or r * 10^k >= max_repeat, and the     *)
(* measurement runs exactly N iterations; Scenario C gives N = 10000.      *)
RECURSIVE WarmupSizing(_, _)
WarmupSizing(n, t) ==
  IF n * t >= min_time_ns \/ n >= max_repeat THEN n ELSE WarmupSizing(n * 10, t)

ExtensionDue ==
  /\ pc = "warm_end"
  /\ i + 1 = N
  /\ total_elapsed_below(warm_aggregate', min_time_ns)
  /\ N < max_repeat

ExtensionStep ==
  pc \in WarmPcs =>
    /\ N' >= N
    /\ (ExtensionDue => N' = 10 * N)
    /\ (~ExtensionDue => N' = N)

C12_WarmupExtendsInPlace ==
  /\ (pc \in WarmPcs =>
        /\ warmCount = i
        /\ warm_aggregate.iterations = warmCount
        /\ warm_aggregate.total = warmSum * warm_aggregate.div
        /\ i <= N)
  /\ (pc \in MeasPcs => warmCount = N)

C12_Witness ==
  /\ pc = "meas_test" /\ i = 0 /\ min_repeat = 1
  /\ N = 100 /\ warmCount = 100 /\ 2000 \in warmSeen

(* C13.  Over a whole bench() call the calls of collector.start() and      *)
(* collector.end() strictly alternate, beginning with a start() and ending *)
(* with an end(): a start() happens only with no window open, an end()     *)
(* only with a window open, the callable runs only inside an open window,  *)
(* and no window is open when bench() returns.  bench() probes with its    *)
(* own collector (bench.h:170) and bench_impl<M> samples with its own      *)
(* (bench.h:148); the calls on both are taken as one sequence.             *)
ProtocolStep ==
  /\ (starts' # starts =>
        starts' = starts + 1 /\ ends' = ends /\ ~window /\ window')
  /\ (ends' # ends =>
        ends' = ends + 1 /\ starts' = starts /\ window /\ ~window')
  /\ (window' # window => starts' # starts \/ ends' # ends)
  /\ (calls' # calls /\ starts' = starts => window /\ window')
  /\ (pc' = "done" => ~window' /\ starts' = ends' /\ starts' >= 1)

C13_StartEndAlternate == [][ProtocolStep]_vars

C13_Witness ==
  /\ pc = "done" /\ ~window
  /\ starts = ends /\ N = 10 /\ Len(probes) = 4
  /\ starts = Len(probes) + 2 * N

(* C14.  Phase ordering within one bench() call: the calibration fixes M   *)
(* before the first warm-up sample, all warm-up samples precede the first  *)
(* measurement sample, M never changes after the calibration, N never      *)
(* changes after the warm-up, and the division by M happens once, after    *)
(* the last measurement sample.                                            *)
PhaseRank(p) ==
  CASE p \in CalPcs -> 1
    [] p = "dispatch" -> 2
    [] p \in WarmPcs -> 3
    [] p \in MeasPcs \ {"normalize", "done"} -> 4
    [] p = "normalize" -> 5
    [] p = "done" -> 6
    [] OTHER -> 7

PhaseStep ==
  /\ PhaseRank(pc') >= PhaseRank(pc)
  /\ (probes' # probes => pc \in CalPcs /\ pc' \in CalPcs \cup {"dispatch"})
  /\ (M' # M => pc \in CalPcs)
  /\ (warmCount' # warmCount =>
        pc \in WarmPcs /\ pc' \in WarmPcs /\ M \in AllowedM)
  /\ (pc' \in CalPcs \cup {"dispatch"} \cup WarmPcs =>
        aggregate'.iterations = 0 /\ measCalls' = 0)
  /\ (pc' \in CalPcs \cup {"dispatch"} => warmCount' = 0)
  /\ (aggregate'.iterations # aggregate.iterations =>
        pc = "meas_end" /\ pc' = "meas_test")
  /\ (pc \in MeasPcs => N' = N)
  /\ (aggregate'.div # aggregate.div \/
      aggregate'.inner_count # aggregate.inner_count =>
        pc = "normalize" /\ pc' = "done" /\ aggregate.iterations = N)
  /\ (pc = "normalize" => aggregate.div = 1 /\ aggregate'.div = M)

C14_PhaseOrdering == [][PhaseStep]_vars

C14_Witness ==
  /\ pc = "done" /\ M = 1000 /\ N = 10
  /\ Len(probes) = 4 /\ warmCount = 10
  /\ aggregate.iterations = 10 /\ aggregate.div = 1000

(* C15.  bench() terminates for every configuration with max_repeat >= 1   *)
(* and every sampler, a sampler always reporting 0 ns included: N is never *)
(* extended once N >= max_repeat or the time floor is met, so N stays at   *)
(* most max(max(min_repeat, 1), 10 * (max_repeat - 1)), below              *)
(* 10 * max_repeat when min_repeat <= max_repeat, and the warm-up and the  *)
(* measurement each run at most that many iterations.                      *)
IterationBound ==
  LET r == IF min_repeat >= 1 THEN min_repeat ELSE 1
      e == 10 * (max_repeat - 1)
  IN IF r >= e THEN r ELSE e

IterationsBounded ==
  (max_repeat >= 1 /\ pc \in WarmPcs \cup MeasPcs) =>
    /\ N <= IterationBound
    /\ (min_repeat <= max_repeat => N < 10 * max_repeat)
    /\ warmCount <= N
    /\ aggregate.iterations <= N
    /\ starts <= 4 + 2 * IterationBound

C15_BenchTerminates ==
  /\ []IterationsBounded
  /\ (max_repeat >= 1 => <>(pc = "done"))

C15_Witness ==
  /\ pc = "done" /\ sampler = [kind |-> "const", v |-> 0]
  /\ min_repeat = 1 /\ max_repeat = 2 /\ N = 10
  /\ warmCount = 10 /\ aggregate.iterations = 10

(* C16.  The unsupported-multiplier errors are unreachable from bench():   *)
(* every value probed through call_ntimes_runtime is one of 1, 10, 100,    *)
(* 1000 (10000 is assigned without being probed), the M reaching the       *)
(* dispatch switch is one of 1, 10, 100, 1000, 10000, and no exception is  *)
(* thrown, whatever the sampler reports.                                   *)
ProbedM == {1, 10, 100, 1000}

C16_NoUnsupportedMultiplier ==
  /\ pc # "threw"
  /\ (pc \in {"cal_start", "cal_call", "cal_end"} => M \in ProbedM)
  /\ (\A k \in 1..Len(probes) : probes[k][1] \in ProbedM)
  /\ (pc \in {"dispatch"} \cup WarmPcs \cup MeasPcs => M \in AllowedM)
  /\ (pc = "cal_call" => ~call_ntimes_runtime(M).threw)
  /\ (pc \in {"warm_call", "meas_call"} => ~call_ntimes(M).threw)

C16_Witness ==
  /\ pc = "done" /\ M = 10000 /\ Len(probes) = 4
  /\ probes[4][1] = 1000 /\ sampler.kind = "any"

(* C17.  As stated: throughout warm-up N has the form                      *)
(* max(min_repeat, 1) * 10^k, N < 10 * max_repeat whenever                 *)
(* min_repeat <= max_repeat, and N * 10 does not wrap when                 *)
(* 10 * max_repeat fits in the bits of size_t.                             *)
FirstN == IF min_repeat >= 1 THEN min_repeat ELSE 1

RECURSIVE TenfoldOf(_, _)
TenfoldOf(n, r) ==
  \/ n = r
  \/ n > r /\ n % 10 = 0 /\ TenfoldOf(n \div 10, r)

Fits == 10 * max_repeat < 2 ^ size_bits
ProductFits == N < max_repeat => 10 * N < 2 ^ size_bits

C17_AsStated ==
  (pc \in WarmPcs) =>
    /\ TenfoldOf(N, FirstN)
    /\ (min_repeat <= max_repeat => N < 10 * max_repeat)
    /\ (min_repeat <= max_repeat /\ Fits => ProductFits)

(* C17, amended.  Throughout warm-up, if max(min_repeat, 1) <= max_repeat  *)
(* and 10 * max_repeat fits in the bits of size_t, then N has the form     *)
(* max(min_repeat, 1) * 10^k, N < 10 * max_repeat, and the product N * 10  *)
(* of an extension fits; if max(min_repeat, 1) > max_repeat, N stays       *)
(* max(min_repeat, 1).                                                     *)
C17_PowerOfTenFormNoWrap ==
  (pc \in WarmPcs) =>
    /\ (FirstN <= max_repeat /\ Fits =>
          /\ TenfoldOf(N, FirstN)
          /\ N < 10 * max_repeat
          /\ ProductFits)
    /\ (FirstN > max_repeat => N = FirstN)

C17_Witness ==
  /\ pc \in WarmPcs /\ FirstN <= max_repeat /\ Fits
  /\ N = 100 * FirstN /\ i > 10 * FirstN
  /\ 10 * N >= 2 ^ size_bits

====
